---- MODULE Spec2Model ----
(***************************************************************************)
(* Catalog-and-rotation subsystem of the picture frame controller:         *)
(* DatabaseManager (albums / images / displayed_images tables) and         *)
(* MediaScanner (scan_media, get_next_image, set_album) of                 *)
(* custom_components/picture_frame.                                        *)
(*                                                                         *)
(* Python strings are sequences of one-character strings, so that split,   *)
(* join and the truthiness of "" are computed, not assumed.  Python None   *)
(* is the one-element sequence <<"None">>, which no string of the model    *)
(* equals.  pathlib paths below a root are sequences of parts.             *)
(***************************************************************************)
EXTENDS Integers, Sequences, FiniteSets, TLC

\* ------------------------------------------------------------------ bounds
\* Largest number of files present under the media roots.
MaxFiles == 3
\* Number of most recent consecutive get_next_image calls that are remembered.
MaxRun == 4
\* Largest number of store calls that fail during one get_next_image call.
MaxFaults == 1
\* Largest rowid of displayed_images: replacing the mark of a marked image
\* takes a new rowid each time.
MaxMarkId == 5
\* Largest number of rows of albums and of images when the store is called
\* directly.
MaxRows == 2

\* ----------------------------------------------------------- Python values
None == <<"None">>

\* Truth value of `album` / `album_name` in `if album:` and `not album`.
Truthy(x) == x # None /\ x # <<>>

Contains(s, c) == \E i \in 1..Len(s) : s[i] = c

RECURSIVE SplitAcc(_, _, _)
SplitAcc(s, cur, acc) ==
    IF s = <<>> THEN Append(acc, cur)
    ELSE IF Head(s) = "/" THEN SplitAcc(Tail(s), <<>>, Append(acc, cur))
    ELSE SplitAcc(Tail(s), Append(cur, Head(s)), acc)

\* str.split("/")
Split(s) == SplitAcc(s, <<>>, <<>>)

\* os.path.join(a, b) on POSIX
OsPathJoin(a, b) ==
    IF b # <<>> /\ Head(b) = "/" THEN b
    ELSE IF a = <<>> \/ a[Len(a)] = "/" THEN a \o b
    ELSE a \o <<"/">> \o b

\* str(Path(a) / b) for a relative b
PathJoin(a, b) ==
    IF b # <<>> /\ Head(b) = "/" THEN b
    ELSE IF b = <<>> THEN a
    ELSE IF a[Len(a)] = "/" THEN a \o b
    ELSE a \o <<"/">> \o b

RECURSIVE JoinParts(_)
JoinParts(parts) ==
    IF parts = <<>> THEN <<>>
    ELSE IF Len(parts) = 1 THEN parts[1]
    ELSE parts[1] \o <<"/">> \o JoinParts(Tail(parts))

\* str(path) of a relative pathlib path: "." when it has no parts
PathStr(parts) == IF parts = <<>> THEN <<".">> ELSE JoinParts(parts)

\* Path.suffix: the part of the name from its last "." (empty if none, or if
\* the only "." is the first character)
Suffix(name) ==
    LET dots == {i \in 2..Len(name) : name[i] = "."}
    IN  IF dots = {} THEN <<>>
        ELSE SubSeq(name, CHOOSE i \in dots : \A j \in dots : j <= i, Len(name))

LowerChar(c) == IF c = "J" THEN "j" ELSE IF c = "P" THEN "p" ELSE IF c = "G" THEN "g" ELSE c

\* str.lower()
Lower(s) == [i \in 1..Len(s) |-> LowerChar(s[i])]

\* ------------------------------------------------------- the environment
\* Configured media roots (media_paths), in configuration order.
media_paths == << <<"/", "m">>, <<"/", "n">> >>

\* allowed_extensions
allowed_extensions == { <<".", "j">> }

\* Files that appear under the roots, in the order of their appearance:
\* directory parts below the root and base name.  Album directory "a" with
\* file "i.j" exists under both roots, and "a" under the first root gets a
\* second file.
FileOrder ==
    << [root |-> <<"/", "m">>, dir |-> << <<"a">> >>, name |-> <<"i", ".", "j">>],
       [root |-> <<"/", "n">>, dir |-> << <<"a">> >>, name |-> <<"i", ".", "j">>],
       [root |-> <<"/", "m">>, dir |-> << <<"b">> >>, name |-> <<"i", ".", "j">>],
       [root |-> <<"/", "m">>, dir |-> << <<"a">> >>, name |-> <<"k", ".", "j">>] >>

\* Values a caller passes to get_next_image as album.
NextArgs == { None, <<>>, <<"a">>, <<"b">>, <<"z", "/", "a">> }

\* Values a caller passes to set_album as album_name.
SetArgs ==
    { None, <<>>, <<"a">>, <<"b">>,
      <<"z", "/", "a">>, <<"a", "/", "z">>, <<"a", "/">> }

\* The empty result of get_next_image.
Sentinel == [path |-> <<>>, relative_path |-> <<>>, album |-> <<>>, source_path |-> <<>>]

\* self._current_image = None
NoImage == [path |-> None, relative_path |-> None, album |-> None, source_path |-> None]

\* Executor threads that can run scan_media at the same time.
Threads == {1, 2}

NoFile == [root |-> <<>>, dir |-> <<>>, name |-> <<>>]

\* A thread that is not running scan_media.
Idle == [pc |-> "idle", root |-> 0, todo |-> {}, file |-> NoFile, album_id |-> 0]

\* `selected = None` in get_next_image
NoneSelected == [id |-> 0, path |-> <<>>, album |-> <<>>, source_path |-> <<>>]

\* A thread that is not running get_next_image.
IdleNext == [pc |-> "idle", eff |-> None, avail |-> 0, selected |-> NoneSelected, ret |-> NoImage]

\* settings.MEDIA_ROOT of the Flask application
MEDIA_ROOT == <<"/", "c", "o", "n", "f", "i", "g", "/", "m", "e", "d", "i", "a">>

\* settings.ALLOWED_EXTENSIONS
ALLOWED_EXTENSIONS ==
    { <<".", "j", "p", "g">>, <<".", "j", "p", "e", "g">>, <<".", "p", "n", "g">>,
      <<".", "g", "i", "f">>, <<".", "w", "e", "b", "p">> }

\* settings.ENABLE_ALBUM_FILTERING
ENABLE_ALBUM_FILTERING == TRUE

\* Files that can exist under MEDIA_ROOT: directory parts below the root and
\* base name.  Album "a" has one image and one text file, album "b" an image
\* with an upper-case suffix and one in a subdirectory, and one image lies
\* in the root itself.
LegacyFiles ==
    { [dir |-> << <<"a">> >>, name |-> <<"i", ".", "j", "p", "g">>],
      [dir |-> << <<"a">> >>, name |-> <<"t", ".", "t", "x", "t">>],
      [dir |-> << <<"b">> >>, name |-> <<"k", ".", "J", "P", "G">>],
      [dir |-> << <<"b">>, <<"s">> >>, name |-> <<"i", ".", "j", "p", "g">>],
      [dir |-> <<>>, name |-> <<"n", ".", "j", "p", "g">>] }

\* Values of the query parameter album of /api/next_image (None: not given).
LegacyArgs == { None, <<>>, <<"a">>, <<"b">>, <<"z">> }

\* No request has been answered.
NoResponse == [status |-> 0, success |-> FALSE, path |-> <<>>, album |-> <<>>]

\* MediaScanner.__init__ of the Flask application, with no state file on disk
LegacyInit ==
    [root |-> TRUE, files |-> {}, all_images |-> <<>>, displayed_images |-> {},
     db_file |-> {}, response |-> NoResponse]

VARIABLES
    fs,                \* files on disk
    albums,            \* table albums: rows [id, name, directory_path, source_path]
    images,            \* table images: rows [id, filename, album_id]
    displayed_images,  \* table displayed_images: rows [id, image_id]
    current_album,     \* MediaScanner._current_album
    current_image,     \* MediaScanner._current_image
    op,                \* the operation that ran last
    arg,               \* its argument
    ok,                \* value returned by the last set_album
    ret,               \* value returned by the last get_next_image
    run,               \* the latest consecutive get_next_image calls
    shown,             \* ids returned since the marks were last bulk-deleted
    preRestart,        \* of those, the ids returned before the latest restart
    pinned,            \* album of the last successful set_album of this engine
    calls,             \* the latest two add_album / add_image calls made directly
    scans,             \* the scan_media executions in progress, by thread
    absent,            \* the media roots that do not exist on disk
    nexts,             \* the get_next_image executions in progress, by thread
    sensor,            \* PictureFrameNextImageSensor: _state and _available
    legacy             \* the Flask application: its media root, its MediaScanner, its last response

vars == <<fs, albums, images, displayed_images, current_album, current_image,
          op, arg, ok, ret, run, shown, preRestart, pinned, calls, scans, absent,
          nexts, sensor, legacy>>

\* what a step of the engine alone leaves unchanged
others == <<calls, scans, absent, nexts, sensor, legacy>>

\* ------------------------------------------------------- DatabaseManager
MaxId(rows) == IF rows = {} THEN 0 ELSE CHOOSE m \in {r.id : r \in rows} : \A r \in rows : r.id <= m

\* cursor.lastrowid of an insert into a rowid table
NextRowId(rows) == MaxId(rows) + 1

\* _init_db: CREATE TABLE IF NOT EXISTS keeps the rows of an existing table
InitDbDrop(rows) == {}

InitDb(rows) == rows

\* clear_displayed_images: DELETE FROM displayed_images
clear_displayed_images_keep(disp) == disp

clear_displayed_images(disp) == {}

\* add_album: [id, albums] after the call
add_album_insert(al, album_name, directory_path, source_path) ==
    [id |-> NextRowId(al),
     albums |-> al \cup {[id |-> NextRowId(al), name |-> album_name,
                          directory_path |-> directory_path,
                          source_path |-> source_path]}]

add_album(al, album_name, directory_path, source_path) ==
    LET hit == {a \in al : a.name = album_name /\ a.source_path = source_path}
    IN  IF hit # {} THEN [id |-> (CHOOSE a \in hit : TRUE).id, albums |-> al]
        ELSE [id |-> NextRowId(al),
              albums |-> al \cup {[id |-> NextRowId(al), name |-> album_name,
                                   directory_path |-> directory_path,
                                   source_path |-> source_path]}]

\* the INSERT of add_album under UNIQUE(name, source_path): a second row of
\* the key raises sqlite3.IntegrityError, which add_album turns into -1
InsertAlbumNoUnique(al, album_name, directory_path, source_path) ==
    [id |-> NextRowId(al),
     albums |-> al \cup {[id |-> NextRowId(al), name |-> album_name,
                          directory_path |-> directory_path,
                          source_path |-> source_path]}]

InsertAlbum(al, album_name, directory_path, source_path) ==
    IF \E a \in al : a.name = album_name /\ a.source_path = source_path
    THEN [id |-> -1, albums |-> al]
    ELSE [id |-> NextRowId(al),
          albums |-> al \cup {[id |-> NextRowId(al), name |-> album_name,
                               directory_path |-> directory_path,
                               source_path |-> source_path]}]

\* the INSERT of add_image under UNIQUE(filename, album_id)
InsertImage(im, filename, album_id) ==
    IF \E i \in im : i.filename = filename /\ i.album_id = album_id
    THEN [id |-> -1, images |-> im]
    ELSE [id |-> NextRowId(im),
          images |-> im \cup {[id |-> NextRowId(im), filename |-> filename,
                               album_id |-> album_id]}]

\* add_image: [id, images] after the call
add_image_insert(im, filename, album_id) ==
    [id |-> NextRowId(im),
     images |-> im \cup {[id |-> NextRowId(im), filename |-> filename, album_id |-> album_id]}]

add_image(im, filename, album_id) ==
    LET hit == {i \in im : i.filename = filename /\ i.album_id = album_id}
    IN  IF hit # {} THEN [id |-> (CHOOSE i \in hit : TRUE).id, images |-> im]
        ELSE [id |-> NextRowId(im),
              images |-> im \cup {[id |-> NextRowId(im), filename |-> filename,
                                   album_id |-> album_id]}]

\* mark_image_displayed: INSERT OR REPLACE on the UNIQUE image_id
mark_image_displayed_noop(disp, image_id) == disp

mark_image_displayed_insert(disp, image_id) ==
    disp \cup {[id |-> NextRowId(disp), image_id |-> image_id]}

mark_image_displayed(disp, image_id) ==
    LET kept == {d \in disp : d.image_id # image_id}
    IN  kept \cup {[id |-> NextRowId(disp), image_id |-> image_id]}

\* the dict built from a row of images JOIN albums
ImageDictShifted(i, a) ==
    [id |-> i.id + 1, path |-> OsPathJoin(a.directory_path, i.filename),
     album |-> a.name, source_path |-> a.source_path]

ImageDict(i, a) ==
    [id |-> i.id, path |-> OsPathJoin(a.directory_path, i.filename),
     album |-> a.name, source_path |-> a.source_path]

\* FROM images i JOIN albums a ON i.album_id = a.id [WHERE a.name = ?]
JoinAll(al, im, album_name) ==
    {ImageDict(i, a) : <<i, a>> \in
        {p \in im \X al : p[1].album_id = p[2].id
                          /\ (Truthy(album_name) => p[2].name = album_name)}}

\* ... LEFT JOIN displayed_images d ON i.id = d.image_id WHERE d.id IS NULL
JoinUndisplayedUnfilteredOnly(al, im, disp, album_name) ==
    IF Truthy(album_name) THEN JoinAll(al, im, album_name)
    ELSE {r \in JoinAll(al, im, album_name) : ~ \E d \in disp : d.image_id = r.id}

JoinUndisplayed(al, im, disp, album_name) ==
    {r \in JoinAll(al, im, album_name) : ~ \E d \in disp : d.image_id = r.id}

count_undisplayed_images(al, im, disp, album_name) ==
    Cardinality(JoinUndisplayed(al, im, disp, album_name))

count_all_images_zero(al, im, album_name) == 0

count_all_images(al, im, album_name) ==
    IF Truthy(album_name) THEN Cardinality(JoinAll(al, im, album_name))
    ELSE Cardinality(im)

\* rows among which ORDER BY RANDOM() LIMIT 1 picks
get_random_undisplayed_image_any(al, im, disp, album_name) ==
    JoinAll(al, im, album_name)

get_random_undisplayed_image(al, im, disp, album_name) ==
    JoinUndisplayed(al, im, disp, album_name)

get_random_image(al, im, album_name) == JoinAll(al, im, album_name)

\* get_all_albums: SELECT DISTINCT name FROM albums
get_all_albums(al) == {a.name : a \in al}

\* except sqlite3.Error: a store call that fails returns its no-op value and
\* leaves the tables as they were
Try(fails, value, noop) == IF fails THEN noop ELSE value

\* ------------------------------------------------------------ MediaScanner
Last(s) == s[Len(s)]

\* lines 52-62 of scan_media: album name and directory path of a file
AlbumNameOf(f) == IF f.dir = <<>> THEN <<"R", "o", "o", "t">> ELSE Last(f.dir)

DirPathOf(f) == LET s == PathStr(f.dir) IN IF s = <<".">> THEN <<>> ELSE s

\* body of the glob loop of scan_media for one path: db is [albums, images]
ScanFile(db, f) ==
    IF Lower(Suffix(f.name)) \in allowed_extensions
    THEN LET a == add_album(db.albums, AlbumNameOf(f), DirPathOf(f), f.root)
         IN  IF a.id >= 0
             THEN [albums |-> a.albums, images |-> add_image(db.images, f.name, a.id).images]
             ELSE [albums |-> a.albums, images |-> db.images]
    ELSE db

\* the catalogs scan_media can leave after visiting the files S of one root:
\* media_root.glob("**/*") yields them in an order the code does not control
\* A file whose rows exist is a no-op wherever it comes in the order (rows are
\* only added), so such files are visited first; the set of results is that
\* of all orders.
RECURSIVE GlobResults(_, _)
GlobResults(db, S) ==
    IF S = {} THEN {db}
    ELSE IF \E f \in S : ScanFile(db, f) = db
    THEN GlobResults(db, {f \in S : ScanFile(db, f) # db})
    ELSE UNION {GlobResults(ScanFile(db, f), S \ {f}) : f \in S}

\* the loop over self.media_paths from the i-th root on; a root that does
\* not exist is skipped (lines 45-47)
RECURSIVE ScanResults(_, _, _)
ScanResults(db, files, i) ==
    IF i > Len(media_paths) THEN {db}
    ELSE IF media_paths[i] \in absent THEN ScanResults(db, files, i + 1)
    ELSE UNION {ScanResults(d, files, i + 1) :
                    d \in GlobResults(db, {f \in files : f.root = media_paths[i]})}

\* lines 102-104 of get_next_image: the album the queries are filtered by
EffectiveAlbumSticky(cur, album) == IF cur # None THEN cur ELSE album

EffectiveAlbumOverrideOnly(cur, album) == album

EffectiveAlbum(cur, album) == IF cur # None /\ ~Truthy(album) THEN cur ELSE album

\* lines 165-169 of set_album
BaseNameNoSplit(album_name) == album_name

BaseName(album_name) ==
    IF Contains(album_name, "/") THEN Last(Split(album_name)) ELSE album_name

\* set_album: [ok, album] = return value and _current_album after the call
SetAlbumUnchecked(cur, al, album_name) ==
    IF album_name = None \/ album_name = <<>> THEN [ok |-> TRUE, album |-> None]
    ELSE [ok |-> BaseName(album_name) \in get_all_albums(al), album |-> BaseName(album_name)]

SetAlbumNoneOnly(cur, al, album_name) ==
    IF album_name = None THEN [ok |-> TRUE, album |-> None]
    ELSE IF BaseName(album_name) \notin get_all_albums(al) THEN [ok |-> FALSE, album |-> cur]
    ELSE [ok |-> TRUE, album |-> BaseName(album_name)]

set_album(cur, al, album_name) ==
    IF album_name = None \/ album_name = <<>> THEN [ok |-> TRUE, album |-> None]
    ELSE IF BaseName(album_name) \notin get_all_albums(al) THEN [ok |-> FALSE, album |-> cur]
    ELSE [ok |-> TRUE, album |-> BaseName(album_name)]

\* lines 132-141 of get_next_image
ResultOf(selected) ==
    [path |-> PathJoin(selected.source_path, selected.path),
     relative_path |-> selected.path,
     source_path |-> selected.source_path,
     album |-> selected.album]

\* get_current_image: self._current_image or the empty dict
get_current_image_raw == current_image

get_current_image == IF current_image = NoImage THEN Sentinel ELSE current_image

\* ------------------------------------------------------- history variables
\* one get_next_image call: its filter, the count of line 107, whether no
\* mark existed before it, whether it cleared the marks, and what it selected
\* (id 0: nothing)
Entry(eff, n, clean, reset, id, rel, src) ==
    [eff |-> eff, n |-> n, clean |-> clean, reset |-> reset, id |-> id, rel |-> rel, src |-> src]

Push(r, e) ==
    LET base == IF r # <<>> /\ Last(r).eff = e.eff THEN r ELSE <<>>
    IN  IF Len(base) >= MaxRun THEN Append(Tail(base), e) ELSE Append(base, e)

\* ----------------------------------------------------------------- actions
Init ==
    /\ fs = {}
    /\ albums = {}
    /\ images = {}
    /\ displayed_images = {}
    /\ current_album = None
    /\ current_image = NoImage
    /\ op = "init"
    /\ arg = None
    /\ ok = FALSE
    /\ ret = NoImage
    /\ run = <<>>
    /\ shown = {}
    /\ preRestart = {}
    /\ pinned = None
    /\ calls = <<>>
    /\ scans = [t \in Threads |-> Idle]
    /\ absent = {}
    /\ nexts = [t \in Threads |-> IdleNext]
    /\ sensor = [state |-> None, available |-> FALSE]
    /\ legacy = LegacyInit

\* a file appears under a media root; the only step that changes fs, and no
\* operation of the program
AddFile ==
    /\ Cardinality(fs) < MaxFiles
    /\ Cardinality(fs) < Len(FileOrder)
    /\ fs' = fs \cup {FileOrder[Cardinality(fs) + 1]}
    /\ UNCHANGED others
    /\ UNCHANGED <<albums, images, displayed_images, current_album, current_image,
                   op, arg, ok, ret, run, shown, preRestart, pinned>>

\* the file that appeared last is deleted
RemoveFile ==
    /\ fs # {}
    /\ fs' = fs \ {FileOrder[Cardinality(fs)]}
    /\ UNCHANGED others
    /\ UNCHANGED <<albums, images, displayed_images, current_album, current_image,
                   op, arg, ok, ret, run, shown, preRestart, pinned>>

\* MediaScanner.scan_media
ScanMediaRebuild ==
    /\ \E db \in ScanResults([albums |-> {}, images |-> {}], fs, 1) :
          /\ albums' = db.albums
          /\ images' = db.images
    /\ UNCHANGED others
    /\ op' = "scan"
    /\ arg' = None
    /\ ok' = FALSE
    /\ run' = <<>>
    /\ UNCHANGED <<fs, displayed_images, current_album, current_image,
                   ret, shown, preRestart, pinned>>

ScanMedia ==
    /\ \E db \in ScanResults([albums |-> albums, images |-> images], fs, 1) :
          /\ albums' = db.albums
          /\ images' = db.images
    /\ UNCHANGED others
    /\ op' = "scan"
    /\ arg' = None
    /\ ok' = FALSE
    /\ run' = <<>>
    /\ UNCHANGED <<fs, displayed_images, current_album, current_image,
                   ret, shown, preRestart, pinned>>

\* MediaScanner.get_next_image(album).  Each local of the method is bound
\* once, in the order the method computes it.
GetNextImage(album) ==
    \E eff \in {EffectiveAlbum(current_album, album)} :
    \E n \in {count_undisplayed_images(albums, images, displayed_images, eff)} :
    \E reset \in {n = 0} :
    \E disp \in {IF reset THEN clear_displayed_images(displayed_images) ELSE displayed_images} :
    \E count \in {IF reset THEN count_all_images(albums, images, eff) ELSE n} :
    \E cands \in {IF count = 0 THEN {}
                  ELSE IF count_undisplayed_images(albums, images, disp, eff) > 0
                  THEN get_random_undisplayed_image(albums, images, disp, eff)
                  ELSE get_random_image(albums, images, eff)} :
        /\ UNCHANGED others
        /\ op' = "next"
        /\ arg' = album
        /\ ok' = FALSE
        /\ UNCHANGED <<fs, albums, images, current_album, pinned>>
        /\ preRestart' = IF reset THEN {} ELSE preRestart
        /\ IF cands = {}
           THEN /\ displayed_images' = disp
                /\ current_image' = Sentinel
                /\ ret' = Sentinel
                /\ run' = Push(run, Entry(eff, n, displayed_images = {}, reset, 0, <<>>, <<>>))
                /\ shown' = IF reset THEN {} ELSE shown
           ELSE \E selected \in cands :
                /\ displayed_images' = mark_image_displayed(disp, selected.id)
                /\ current_image' = ResultOf(selected)
                /\ ret' = ResultOf(selected)
                /\ run' = Push(run, Entry(eff, n, displayed_images = {}, reset, selected.id,
                                          selected.path, selected.source_path))
                /\ shown' = (IF reset THEN {} ELSE shown) \cup {selected.id}

\* The store calls of get_next_image, by line: count_undisplayed_images (107),
\* clear_displayed_images (112), count_all_images (113),
\* count_undisplayed_images (123), get_random_*_image (124/126) and
\* mark_image_displayed (130).
StoreCalls == {"count1", "clear", "count_all", "count2", "random", "mark"}

FaultSets == {F \in SUBSET StoreCalls : Cardinality(F) \in 1..MaxFaults}

\* MediaScanner.get_next_image(album) during which the store calls in
\* `failed` raise sqlite3.Error inside the DatabaseManager method; each call
\* in `failed` is one the method reaches.  The rowids of displayed_images
\* stay within MaxMarkId.
GetNextImageFailing(album, failed) ==
    \E eff \in {EffectiveAlbum(current_album, album)} :
    \E n \in {Try("count1" \in failed, count_undisplayed_images(albums, images, displayed_images, eff), 0)} :
    \E reset \in {n = 0} :
    \E disp \in {IF reset
                 THEN Try("clear" \in failed, clear_displayed_images(displayed_images), displayed_images)
                 ELSE displayed_images} :
    \E count \in {IF reset THEN Try("count_all" \in failed, count_all_images(albums, images, eff), 0)
                  ELSE n} :
    \E cands \in {IF count = 0 \/ "random" \in failed THEN {}
                  ELSE IF Try("count2" \in failed, count_undisplayed_images(albums, images, disp, eff), 0) > 0
                  THEN get_random_undisplayed_image(albums, images, disp, eff)
                  ELSE get_random_image(albums, images, eff)} :
        /\ failed \subseteq {"count1"} \cup (IF reset THEN {"clear", "count_all"} ELSE {})
                             \cup (IF count # 0 THEN {"count2", "random"} ELSE {})
                             \cup (IF cands # {} THEN {"mark"} ELSE {})
        /\ UNCHANGED others
        /\ op' = "next_failing"
        /\ arg' = album
        /\ ok' = FALSE
        /\ run' = <<>>
        /\ UNCHANGED <<fs, albums, images, current_album, pinned>>
        /\ preRestart' = IF disp = {} THEN {} ELSE preRestart
        /\ IF cands = {}
           THEN /\ displayed_images' = disp
                /\ current_image' = Sentinel
                /\ ret' = Sentinel
                /\ shown' = IF disp = {} THEN {} ELSE shown
           ELSE \E selected \in cands :
                /\ displayed_images' = Try("mark" \in failed, mark_image_displayed(disp, selected.id), disp)
                /\ MaxId(displayed_images') <= MaxMarkId
                /\ current_image' = ResultOf(selected)
                /\ ret' = ResultOf(selected)
                /\ shown' = (IF disp = {} THEN {} ELSE shown) \cup {selected.id}

\* MediaScanner.get_next_image(album) during which store call c cannot open
\* its connection: self._get_connection() raises inside the try block before
\* conn is bound, the handler (if the error is a sqlite3.Error) runs, and
\* `if conn:` in the finally block raises UnboundLocalError, which leaves the
\* DatabaseManager method and get_next_image.  What the earlier store calls
\* of the same get_next_image did stays done; nothing is returned.
GetNextImageRaising(album, c) ==
    \E eff \in {EffectiveAlbum(current_album, album)} :
    \E n \in {count_undisplayed_images(albums, images, displayed_images, eff)} :
    \E reset \in {n = 0} :
    \E disp \in {IF reset THEN clear_displayed_images(displayed_images) ELSE displayed_images} :
    \E count \in {IF reset THEN count_all_images(albums, images, eff) ELSE n} :
        /\ c \in {"count1"} \cup (IF reset THEN {"clear", "count_all"} ELSE {})
                            \cup (IF count # 0 THEN {"count2", "random", "mark"} ELSE {})
        /\ UNCHANGED others
        /\ op' = "next_raised"
        /\ arg' = album
        /\ ok' = FALSE
        /\ run' = <<>>
        /\ displayed_images' = IF c \in {"count1", "clear"} THEN displayed_images ELSE disp
        /\ shown' = IF displayed_images' = {} THEN {} ELSE shown
        /\ preRestart' = IF displayed_images' = {} THEN {} ELSE preRestart
        /\ UNCHANGED <<fs, albums, images, current_album, current_image, ret, pinned>>

\* MediaScanner.set_album(album_name)
SetAlbum(album_name) ==
    LET r == set_album(current_album, albums, album_name)
    IN  /\ current_album' = r.album
        /\ ok' = r.ok
        /\ pinned' = IF r.ok THEN r.album ELSE pinned
        /\ UNCHANGED others
        /\ op' = "set_album"
        /\ arg' = album_name
        /\ run' = <<>>
        /\ UNCHANGED <<fs, albums, images, displayed_images, current_image,
                       ret, shown, preRestart>>

\* reset_history: DatabaseManager.clear_displayed_images
ClearHistoryDropsFilter ==
    /\ displayed_images' = clear_displayed_images(displayed_images)
    /\ current_album' = None
    /\ UNCHANGED others
    /\ op' = "reset_history"
    /\ arg' = None
    /\ ok' = FALSE
    /\ run' = <<>>
    /\ shown' = {}
    /\ preRestart' = {}
    /\ UNCHANGED <<fs, albums, images, current_image, ret, pinned>>

ClearHistory ==
    /\ displayed_images' = clear_displayed_images(displayed_images)
    /\ UNCHANGED others
    /\ op' = "reset_history"
    /\ arg' = None
    /\ ok' = FALSE
    /\ run' = <<>>
    /\ shown' = {}
    /\ preRestart' = {}
    /\ UNCHANGED <<fs, albums, images, current_album, current_image, ret, pinned>>

\* process restart: async_setup_platform builds a DatabaseManager and a
\* MediaScanner on the existing database file and runs the initial scan
RestartKeepsFields ==
    /\ \E db \in ScanResults([albums |-> InitDb(albums), images |-> InitDb(images)], fs, 1) :
          /\ albums' = db.albums
          /\ images' = db.images
    /\ displayed_images' = InitDb(displayed_images)
    /\ UNCHANGED others
    /\ op' = "restart"
    /\ arg' = None
    /\ ok' = FALSE
    /\ ret' = NoImage
    /\ run' = <<>>
    /\ preRestart' = shown
    /\ pinned' = None
    /\ UNCHANGED <<fs, shown, current_album, current_image>>

Restart ==
    /\ \E db \in ScanResults([albums |-> InitDb(albums), images |-> InitDb(images)], fs, 1) :
          /\ albums' = db.albums
          /\ images' = db.images
    /\ displayed_images' = InitDb(displayed_images)
    /\ current_album' = None
    /\ current_image' = NoImage
    /\ UNCHANGED others
    /\ op' = "restart"
    /\ arg' = None
    /\ ok' = FALSE
    /\ ret' = NoImage
    /\ run' = <<>>
    /\ preRestart' = shown
    /\ pinned' = None
    /\ UNCHANGED <<fs, shown>>

\* ------------------------------------------- direct calls of the store
\* (name, directory_path, source_path) arguments of add_album, as scan_media
\* derives them from a file
AlbumArgs == {<<AlbumNameOf(FileOrder[i]), DirPathOf(FileOrder[i]), FileOrder[i].root>> :
                  i \in 1..Len(FileOrder)}

FileNames == {FileOrder[i].name : i \in 1..Len(FileOrder)}

\* one add_album / add_image call: function, key and returned id
PushCall(c, fn, key, id) ==
    LET e == [fn |-> fn, key |-> key, id |-> id]
    IN  IF Len(c) >= 2 THEN <<c[2], e>> ELSE Append(c, e)

\* DatabaseManager.add_album(k[1], k[2], k[3])
StoreAddAlbum(k) ==
    LET r == add_album(albums, k[1], k[2], k[3])
    IN  /\ Cardinality(r.albums) <= MaxRows
        /\ albums' = r.albums
        /\ calls' = PushCall(calls, "add_album", <<k[1], k[3]>>, r.id)
        /\ op' = "add_album"
        /\ UNCHANGED <<fs, images, displayed_images, current_album, current_image,
                       arg, ok, ret, run, shown, preRestart, pinned, scans, absent,
                       nexts, sensor, legacy>>

\* DatabaseManager.add_image(filename, album_id)
StoreAddImage(filename, album_id) ==
    LET r == add_image(images, filename, album_id)
    IN  /\ Cardinality(r.images) <= MaxRows
        /\ images' = r.images
        /\ calls' = PushCall(calls, "add_image", <<filename, album_id>>, r.id)
        /\ op' = "add_image"
        /\ UNCHANGED <<fs, albums, displayed_images, current_album, current_image,
                       arg, ok, ret, run, shown, preRestart, pinned, scans, absent,
                       nexts, sensor, legacy>>

\* DatabaseManager.mark_image_displayed(image_id)
StoreMark(image_id) ==
    /\ displayed_images' = mark_image_displayed(displayed_images, image_id)
    /\ MaxId(displayed_images') <= MaxMarkId
    /\ op' = "mark"
    /\ UNCHANGED <<fs, albums, images, current_album, current_image,
                   arg, ok, ret, run, shown, preRestart, pinned, calls, scans, absent,
                   nexts, sensor, legacy>>

\* DatabaseManager.clear_displayed_images()
StoreClear ==
    /\ displayed_images' = clear_displayed_images(displayed_images)
    /\ op' = "clear"
    /\ UNCHANGED <<fs, albums, images, current_album, current_image,
                   arg, ok, ret, run, shown, preRestart, pinned, calls, scans, absent,
                   nexts, sensor, legacy>>

NextStore ==
    \/ \E k \in AlbumArgs : StoreAddAlbum(k)
    \/ \E filename \in FileNames : \E a \in albums : StoreAddImage(filename, a.id)

\* a single caller of add_album and add_image, every call succeeding
SpecStore == Init /\ [][NextStore]_vars

\* ids of the images of at most MaxFiles files
ImageIds == 1..MaxFiles

NextMarks ==
    \/ \E image_id \in ImageIds : StoreMark(image_id)
    \/ StoreClear

\* a single caller of mark_image_displayed and clear_displayed_images, every
\* call succeeding
SpecMarks == Init /\ [][NextMarks]_vars

\* ------------------------------------------------- concurrent scan_media
\* scan_media runs on executor threads; each statement of add_album and
\* add_image is one step, and the steps of two scans interleave.
RootFiles(i) == {f \in fs : f.root = media_paths[i]}

ScanUnchanged ==
    UNCHANGED <<fs, displayed_images, current_album, current_image,
                op, arg, ok, ret, run, shown, preRestart, pinned, calls, absent,
                nexts, sensor, legacy>>

\* a thread enters scan_media and starts the glob of the first root
BeginScan(t) ==
    /\ scans[t].pc = "idle"
    /\ scans' = [scans EXCEPT ![t] = [pc |-> "glob", root |-> 1, todo |-> RootFiles(1),
                                       file |-> NoFile, album_id |-> 0]]
    /\ UNCHANGED <<albums, images>>
    /\ ScanUnchanged

\* the glob yields the next path, or the loop moves to the next root, or
\* scan_media returns
ScanNextFile(t) ==
    /\ scans[t].pc = "glob"
    /\ IF scans[t].todo # {}
       THEN \E f \in scans[t].todo :
                scans' = [scans EXCEPT ![t] =
                    IF Lower(Suffix(f.name)) \in allowed_extensions
                    THEN [@ EXCEPT !.pc = "album_select", !.todo = @ \ {f}, !.file = f]
                    ELSE [@ EXCEPT !.todo = @ \ {f}]]
       ELSE IF scans[t].root < Len(media_paths)
       THEN scans' = [scans EXCEPT ![t] = [@ EXCEPT !.root = @ + 1,
                                             !.todo = RootFiles(scans[t].root + 1)]]
       ELSE scans' = [scans EXCEPT ![t] = Idle]
    /\ UNCHANGED <<albums, images>>
    /\ ScanUnchanged

\* add_album: SELECT id FROM albums WHERE name = ? AND source_path = ?
ScanAlbumSelect(t) ==
    /\ scans[t].pc = "album_select"
    /\ LET f == scans[t].file
           hit == {a \in albums : a.name = AlbumNameOf(f) /\ a.source_path = f.root}
       IN  scans' = [scans EXCEPT ![t] =
               IF hit # {}
               THEN [@ EXCEPT !.pc = "image_select", !.album_id = (CHOOSE a \in hit : TRUE).id]
               ELSE [@ EXCEPT !.pc = "album_insert"]]
    /\ UNCHANGED <<albums, images>>
    /\ ScanUnchanged

\* add_album: INSERT INTO albums, commit; then `if album_id >= 0`
ScanAlbumInsert(t) ==
    /\ scans[t].pc = "album_insert"
    /\ LET f == scans[t].file
           r == InsertAlbum(albums, AlbumNameOf(f), DirPathOf(f), f.root)
       IN  /\ albums' = r.albums
           /\ scans' = [scans EXCEPT ![t] =
                  IF r.id >= 0
                  THEN [@ EXCEPT !.pc = "image_select", !.album_id = r.id]
                  ELSE [@ EXCEPT !.pc = "glob", !.file = NoFile, !.album_id = 0]]
    /\ UNCHANGED images
    /\ ScanUnchanged

\* add_image: SELECT id FROM images WHERE filename = ? AND album_id = ?
ScanImageSelect(t) ==
    /\ scans[t].pc = "image_select"
    /\ LET f == scans[t].file
           hit == {i \in images : i.filename = f.name /\ i.album_id = scans[t].album_id}
       IN  scans' = [scans EXCEPT ![t] =
               IF hit # {}
               THEN [@ EXCEPT !.pc = "glob", !.file = NoFile, !.album_id = 0]
               ELSE [@ EXCEPT !.pc = "image_insert"]]
    /\ UNCHANGED <<albums, images>>
    /\ ScanUnchanged

\* add_image: INSERT INTO images, commit
ScanImageInsert(t) ==
    /\ scans[t].pc = "image_insert"
    /\ images' = InsertImage(images, scans[t].file.name, scans[t].album_id).images
    /\ scans' = [scans EXCEPT ![t] = [@ EXCEPT !.pc = "glob", !.file = NoFile, !.album_id = 0]]
    /\ UNCHANGED albums
    /\ ScanUnchanged

NextScans ==
    \/ AddFile
    \/ \E t \in Threads : BeginScan(t)
    \/ \E t \in Threads : ScanNextFile(t)
    \/ \E t \in Threads : ScanAlbumSelect(t)
    \/ \E t \in Threads : ScanAlbumInsert(t)
    \/ \E t \in Threads : ScanImageSelect(t)
    \/ \E t \in Threads : ScanImageInsert(t)

\* scans on two executor threads, every statement succeeding unless it
\* violates a UNIQUE constraint
SpecScans == Init /\ [][NextScans]_vars

\* ------------------------------------------ concurrent get_next_image calls
\* Two get_next_image calls of one engine on executor threads (the periodic
\* update of the next-image sensor and the next_image service).  A step is one
\* store call of one thread: each opens its own connection and commits.
NextsUnchanged ==
    UNCHANGED <<fs, albums, images, current_album, op, arg, ok, ret, run, shown,
                preRestart, pinned, calls, scans, absent, sensor, legacy>>

\* the thread returns `result` (lines 118-119, 133-147)
Return(t, result) ==
    /\ nexts' = [nexts EXCEPT ![t] = [@ EXCEPT !.pc = "done", !.ret = result]]
    /\ current_image' = result

\* thread t enters get_next_image(album): lines 102-104.  avail is the number
\* of undisplayed images in scope at that moment; the record of a call that
\* returned before this one began is dropped.
BeginNext(t, album) ==
    /\ nexts[t].pc \in {"idle", "done"}
    /\ nexts' = [u \in Threads |->
                    IF u = t
                    THEN [pc |-> "count1",
                          eff |-> EffectiveAlbum(current_album, album),
                          avail |-> count_undisplayed_images(albums, images, displayed_images,
                                                              EffectiveAlbum(current_album, album)),
                          selected |-> NoneSelected,
                          ret |-> NoImage]
                    ELSE IF nexts[u].pc = "done" THEN IdleNext ELSE nexts[u]]
    /\ UNCHANGED <<displayed_images, current_image>>
    /\ NextsUnchanged

\* line 107: count_undisplayed_images(album)
NextCount1(t) ==
    /\ nexts[t].pc = "count1"
    /\ nexts' = [nexts EXCEPT ![t] = [@ EXCEPT !.pc =
                    IF count_undisplayed_images(albums, images, displayed_images, nexts[t].eff) = 0
                    THEN "clear" ELSE "count2"]]
    /\ UNCHANGED <<displayed_images, current_image>>
    /\ NextsUnchanged

\* line 112: clear_displayed_images()
NextClear(t) ==
    /\ nexts[t].pc = "clear"
    /\ displayed_images' = clear_displayed_images(displayed_images)
    /\ nexts' = [nexts EXCEPT ![t] = [@ EXCEPT !.pc = "count_all"]]
    /\ UNCHANGED current_image
    /\ NextsUnchanged

\* lines 113-119: count_all_images(album), and the empty result if it is 0
NextCountAll(t) ==
    /\ nexts[t].pc = "count_all"
    /\ IF count_all_images(albums, images, nexts[t].eff) = 0
       THEN Return(t, Sentinel)
       ELSE /\ nexts' = [nexts EXCEPT ![t] = [@ EXCEPT !.pc = "count2"]]
            /\ UNCHANGED current_image
    /\ UNCHANGED displayed_images
    /\ NextsUnchanged

\* line 123: the second count_undisplayed_images(album)
NextCount2(t) ==
    /\ nexts[t].pc = "count2"
    /\ nexts' = [nexts EXCEPT ![t] = [@ EXCEPT !.pc =
                    IF count_undisplayed_images(albums, images, displayed_images, nexts[t].eff) > 0
                    THEN "random_undisplayed" ELSE "random"]]
    /\ UNCHANGED <<displayed_images, current_image>>
    /\ NextsUnchanged

\* lines 124 / 126 and 128, 146-147: the sample; the empty result if it is None
NextSample(t) ==
    /\ nexts[t].pc \in {"random_undisplayed", "random"}
    /\ LET cands == IF nexts[t].pc = "random_undisplayed"
                    THEN get_random_undisplayed_image(albums, images, displayed_images, nexts[t].eff)
                    ELSE get_random_image(albums, images, nexts[t].eff)
       IN  IF cands = {}
           THEN Return(t, Sentinel)
           ELSE /\ \E selected \in cands :
                     nexts' = [nexts EXCEPT ![t] = [@ EXCEPT !.pc = "mark", !.selected = selected]]
                /\ UNCHANGED current_image
    /\ UNCHANGED displayed_images
    /\ NextsUnchanged

\* lines 130-143: mark_image_displayed(selected["id"]) and the result.  The
\* rowids of displayed_images stay within MaxMarkId.
NextMark(t) ==
    /\ nexts[t].pc = "mark"
    /\ displayed_images' = mark_image_displayed(displayed_images, nexts[t].selected.id)
    /\ MaxId(displayed_images') <= MaxMarkId
    /\ Return(t, ResultOf(nexts[t].selected))
    /\ NextsUnchanged

\* one engine whose get_next_image calls run on two threads
NextNexts ==
    \/ AddFile
    \/ ScanMedia
    \/ \E t \in Threads : \E album \in {None, <<"a">>} : BeginNext(t, album)
    \/ \E t \in Threads : NextCount1(t)
    \/ \E t \in Threads : NextClear(t)
    \/ \E t \in Threads : NextCountAll(t)
    \/ \E t \in Threads : NextCount2(t)
    \/ \E t \in Threads : NextSample(t)
    \/ \E t \in Threads : NextMark(t)

SpecNexts == Init /\ [][NextNexts]_vars

\* ------------------------------------------------------ service handlers
\* MediaScanner.get_next_image(album) as a function of the tables and of
\* _current_album: the marks it leaves, whether it cleared them, the id it
\* selected (0: none) and the value it returns
NextImageResults(al, im, disp0, cur, album) ==
    LET eff == EffectiveAlbum(cur, album)
        n == count_undisplayed_images(al, im, disp0, eff)
        reset == n = 0
        disp == IF reset THEN clear_displayed_images(disp0) ELSE disp0
        count == IF reset THEN count_all_images(al, im, eff) ELSE n
        cands == IF count = 0 THEN {}
                 ELSE IF count_undisplayed_images(al, im, disp, eff) > 0
                 THEN get_random_undisplayed_image(al, im, disp, eff)
                 ELSE get_random_image(al, im, eff)
    IN  IF cands = {}
        THEN {[disp |-> disp, reset |-> reset, id |-> 0, result |-> Sentinel]}
        ELSE {[disp |-> mark_image_displayed(disp, selected.id), reset |-> reset,
               id |-> selected.id, result |-> ResultOf(selected)] : selected \in cands}

\* PictureFrameNextImageSensor.async_update after get_next_image returned
\* image_info: lines 134-146
SensorAfter(image_info) ==
    IF image_info.path # <<>>
    THEN [state |-> image_info.path, available |-> TRUE]
    ELSE [state |-> None, available |-> FALSE]

\* the ids returned since the marks were last bulk-deleted, after call r
ShownAfter(sh, r) ==
    (IF r.reset THEN {} ELSE sh) \cup (IF r.id = 0 THEN {} ELSE {r.id})

\* the update of the next-image sensor on tables al, im, disp0 and
\* _current_album cur: async_update calls get_next_image() without album
RefreshFrom(al, im, disp0, cur, sh, pre) ==
    \E r \in NextImageResults(al, im, disp0, cur, None) :
        /\ displayed_images' = r.disp
        /\ current_image' = r.result
        /\ sensor' = SensorAfter(r.result)
        /\ shown' = ShownAfter(sh, r)
        /\ preRestart' = IF r.reset THEN {} ELSE pre

\* PictureFrameNextImageSensor.async_update, run every SCAN_INTERVAL
AsyncUpdate ==
    /\ RefreshFrom(albums, images, displayed_images, current_album, shown, preRestart)
    /\ op' = "sensor_update"
    /\ arg' = None
    /\ ok' = FALSE
    /\ run' = <<>>
    /\ UNCHANGED <<fs, albums, images, current_album, ret, pinned, calls, scans, absent, nexts, legacy>>

\* handle_scan_media: scan_media, then the update of the sensors
HandleScanMedia ==
    /\ \E db \in ScanResults([albums |-> albums, images |-> images], fs, 1) :
          /\ albums' = db.albums
          /\ images' = db.images
          /\ RefreshFrom(db.albums, db.images, displayed_images, current_album, shown, preRestart)
    /\ op' = "service_scan"
    /\ arg' = None
    /\ ok' = FALSE
    /\ run' = <<>>
    /\ UNCHANGED <<fs, current_album, ret, pinned, calls, scans, absent, nexts, legacy>>

\* handle_next_image without the update of the sensors
HandleNextImageNoRefresh(album) ==
    /\ \E r \in NextImageResults(albums, images, displayed_images, current_album, album) :
          /\ ret' = r.result
          /\ displayed_images' = r.disp
          /\ current_image' = r.result
          /\ shown' = ShownAfter(shown, r)
          /\ preRestart' = IF r.reset THEN {} ELSE preRestart
    /\ op' = "service_next"
    /\ arg' = album
    /\ ok' = FALSE
    /\ run' = <<>>
    /\ UNCHANGED <<fs, albums, images, current_album, pinned, calls, scans, absent, nexts, sensor, legacy>>

\* handle_next_image: get_next_image(album), whose value the handler returns,
\* then the update of the sensors
HandleNextImage(album) ==
    /\ \E r \in NextImageResults(albums, images, displayed_images, current_album, album) :
          /\ ret' = r.result
          /\ RefreshFrom(albums, images, r.disp, current_album, ShownAfter(shown, r),
                         IF r.reset THEN {} ELSE preRestart)
    /\ op' = "service_next"
    /\ arg' = album
    /\ ok' = FALSE
    /\ run' = <<>>
    /\ UNCHANGED <<fs, albums, images, current_album, pinned, calls, scans, absent, nexts, legacy>>

\* handle_set_album: "" becomes None, set_album, then the update of the
\* current-album sensor, which reads get_current_album
HandleSetAlbum(album) ==
    LET r == set_album(current_album, albums, IF album = <<>> THEN None ELSE album)
    IN  /\ current_album' = r.album
        /\ ok' = r.ok
        /\ pinned' = IF r.ok THEN r.album ELSE pinned
        /\ op' = "service_set_album"
        /\ arg' = album
        /\ run' = <<>>
        /\ UNCHANGED others
        /\ UNCHANGED <<fs, albums, images, displayed_images, current_image,
                       ret, shown, preRestart>>

\* handle_reset_history: clear_displayed_images, then the update of the
\* sensors
HandleResetHistory ==
    /\ RefreshFrom(albums, images, clear_displayed_images(displayed_images), current_album, {}, {})
    /\ op' = "service_reset_history"
    /\ arg' = None
    /\ ok' = FALSE
    /\ run' = <<>>
    /\ UNCHANGED <<fs, albums, images, current_album, ret, pinned, calls, scans, absent, nexts, legacy>>

\* the services and the sensor of one engine
NextService ==
    \/ AddFile
    \/ HandleScanMedia
    \/ \E album \in {None, <<"a">>} : HandleNextImage(album)
    \/ \E album \in {None, <<>>, <<"a">>, <<"b">>} : HandleSetAlbum(album)
    \/ HandleResetHistory
    \/ AsyncUpdate

SpecService == Init /\ [][NextService]_vars

\* ------------------------------------------------ scans of a changing disk
\* Files that can exist under the roots: an image in the first root itself,
\* one in a directory named "Root", one in directory "a", one in a nested
\* directory "a", one in directory "a" of the second root, and a file whose
\* extension is not allowed.
ScanFiles ==
    { [root |-> <<"/", "m">>, dir |-> <<>>, name |-> <<"i", ".", "j">>],
      [root |-> <<"/", "m">>, dir |-> << <<"R", "o", "o", "t">> >>, name |-> <<"i", ".", "j">>],
      [root |-> <<"/", "m">>, dir |-> << <<"a">> >>, name |-> <<"i", ".", "j">>],
      [root |-> <<"/", "m">>, dir |-> << <<"b">>, <<"a">> >>, name |-> <<"k", ".", "j">>],
      [root |-> <<"/", "n">>, dir |-> << <<"a">> >>, name |-> <<"k", ".", "j">>],
      [root |-> <<"/", "m">>, dir |-> << <<"b">> >>, name |-> <<"x", ".", "t">>] }

Roots == {media_paths[i] : i \in 1..Len(media_paths)}

\* lines 81-84 of scan_media without the test of album_id
ScanFileTryUnchecked(db, f, failed) ==
    IF Lower(Suffix(f.name)) \in allowed_extensions
    THEN LET a == Try(f \in failed,
                      add_album(db.albums, AlbumNameOf(f), DirPathOf(f), f.root),
                      [id |-> -1, albums |-> db.albums])
         IN  [albums |-> a.albums, images |-> add_image(db.images, f.name, a.id).images]
    ELSE db

\* body of the glob loop of scan_media for one path, when add_album raises
\* sqlite3.Error inside the method for the files in `failed` and returns -1
ScanFileTry(db, f, failed) ==
    IF Lower(Suffix(f.name)) \in allowed_extensions
    THEN LET a == Try(f \in failed,
                      add_album(db.albums, AlbumNameOf(f), DirPathOf(f), f.root),
                      [id |-> -1, albums |-> db.albums])
         IN  IF a.id >= 0
             THEN [albums |-> a.albums, images |-> add_image(db.images, f.name, a.id).images]
             ELSE [albums |-> a.albums, images |-> db.images]
    ELSE db

\* the glob loop over the files S of one root, in any order (see GlobResults)
RECURSIVE GlobResultsTry(_, _, _)
GlobResultsTry(db, S, failed) ==
    IF S = {} THEN {db}
    ELSE IF \E f \in S : ScanFileTry(db, f, failed) = db
    THEN GlobResultsTry(db, {f \in S : ScanFileTry(db, f, failed) # db}, failed)
    ELSE UNION {GlobResultsTry(ScanFileTry(db, f, failed), S \ {f}, failed) : f \in S}

\* the loop over self.media_paths ended by the first root that does not exist
RECURSIVE ScanResultsTryStop(_, _, _, _)
ScanResultsTryStop(db, files, i, failed) ==
    IF i > Len(media_paths) \/ media_paths[i] \in absent THEN {db}
    ELSE UNION {ScanResultsTryStop(d, files, i + 1, failed) :
                    d \in GlobResultsTry(db, {f \in files : f.root = media_paths[i]}, failed)}

\* the loop over self.media_paths from the i-th root on; a root that does
\* not exist is skipped (lines 45-47)
RECURSIVE ScanResultsTry(_, _, _, _)
ScanResultsTry(db, files, i, failed) ==
    IF i > Len(media_paths) THEN {db}
    ELSE IF media_paths[i] \in absent THEN ScanResultsTry(db, files, i + 1, failed)
    ELSE UNION {ScanResultsTry(d, files, i + 1, failed) :
                    d \in GlobResultsTry(db, {f \in files : f.root = media_paths[i]}, failed)}

\* a file is created under a root that exists
Appear(f) ==
    /\ f \notin fs
    /\ f.root \notin absent
    /\ Cardinality(fs) < MaxFiles
    /\ fs' = fs \cup {f}
    /\ op' = "disk"
    /\ run' = <<>>
    /\ UNCHANGED others
    /\ UNCHANGED <<albums, images, displayed_images, current_album, current_image,
                   arg, ok, ret, shown, preRestart, pinned>>

\* a file is deleted
Disappear(f) ==
    /\ f \in fs
    /\ fs' = fs \ {f}
    /\ op' = "disk"
    /\ run' = <<>>
    /\ UNCHANGED others
    /\ UNCHANGED <<albums, images, displayed_images, current_album, current_image,
                   arg, ok, ret, shown, preRestart, pinned>>

\* an empty root directory is removed, or a missing one is created
ToggleRoot(r) ==
    /\ \A f \in fs : f.root # r
    /\ absent' = IF r \in absent THEN absent \ {r} ELSE absent \cup {r}
    /\ op' = "disk"
    /\ run' = <<>>
    /\ UNCHANGED <<calls, scans, nexts, sensor, legacy>>
    /\ UNCHANGED <<fs, albums, images, displayed_images, current_album, current_image,
                   arg, ok, ret, shown, preRestart, pinned>>

\* MediaScanner.scan_media during which add_album fails for the files in
\* `failed`.  op tells a scan with failures, a scan that follows a scan
\* without failures on the same disk, and any other scan apart; arg keeps
\* `failed`.
ScanMediaTry(failed) ==
    /\ \E db \in ScanResultsTry([albums |-> albums, images |-> images], fs, 1, failed) :
          /\ albums' = db.albums
          /\ images' = db.images
    /\ UNCHANGED others
    /\ op' = IF failed # {} THEN "scan_failing"
             ELSE IF op \in {"scan", "rescan"} THEN "rescan" ELSE "scan"
    /\ arg' = failed
    /\ ok' = FALSE
    /\ run' = <<>>
    /\ UNCHANGED <<fs, displayed_images, current_album, current_image,
                   ret, shown, preRestart, pinned>>

\* scans of a disk whose files and roots come and go
NextCatalog ==
    \/ \E f \in ScanFiles : Appear(f)
    \/ \E f \in ScanFiles : Disappear(f)
    \/ \E r \in Roots : ToggleRoot(r)
    \/ ScanMediaTry({})

SpecCatalog == Init /\ [][NextCatalog]_vars

\* scans during which add_album may fail, of a disk that gets new files
NextCatalogFailing ==
    \/ \E f \in ScanFiles : Appear(f)
    \/ \E failed \in {F \in SUBSET fs : Cardinality(F) <= MaxFaults} : ScanMediaTry(failed)

SpecCatalogFailing == Init /\ [][NextCatalogFailing]_vars

\* ------------------------------------------- scans under other allow-lists
\* Files whose names differ in the case of the extension, a file with another
\* extension and one without extension, all in directory "a" of the first root.
ExtFiles ==
    { [root |-> <<"/", "m">>, dir |-> << <<"a">> >>, name |-> n] :
        n \in { <<"i", ".", "j">>, <<"i", ".", "J">>, <<"k", ".", "t">>, <<"k">> } }

\* Values of the configuration entry allowed_extensions.
ExtLists == SUBSET { <<".", "j">>, <<".", "J">>, <<".", "t">> } \ {{}}

\* line 51 of scan_media: img_path.suffix.lower() in self.allowed_extensions
Allowed(name, exts) == Lower(Suffix(name)) \in exts

\* body of the glob loop of scan_media for one path, the engine constructed
\* with allowed_extensions = exts
ScanFileExt(db, f, exts) ==
    IF Allowed(f.name, exts)
    THEN LET a == add_album(db.albums, AlbumNameOf(f), DirPathOf(f), f.root)
         IN  IF a.id >= 0
             THEN [albums |-> a.albums, images |-> add_image(db.images, f.name, a.id).images]
             ELSE [albums |-> a.albums, images |-> db.images]
    ELSE db

\* the glob loop over the files S of one root, in any order (see GlobResults)
RECURSIVE GlobResultsExt(_, _, _)
GlobResultsExt(db, S, exts) ==
    IF S = {} THEN {db}
    ELSE IF \E f \in S : ScanFileExt(db, f, exts) = db
    THEN GlobResultsExt(db, {f \in S : ScanFileExt(db, f, exts) # db}, exts)
    ELSE UNION {GlobResultsExt(ScanFileExt(db, f, exts), S \ {f}, exts) : f \in S}

\* the loop over self.media_paths from the i-th root on
RECURSIVE ScanResultsExt(_, _, _, _)
ScanResultsExt(db, files, i, exts) ==
    IF i > Len(media_paths) THEN {db}
    ELSE IF media_paths[i] \in absent THEN ScanResultsExt(db, files, i + 1, exts)
    ELSE UNION {ScanResultsExt(d, files, i + 1, exts) :
                    d \in GlobResultsExt(db, {f \in files : f.root = media_paths[i]}, exts)}

\* scan_media of a MediaScanner constructed with allowed_extensions = exts;
\* arg keeps exts
ScanMediaExt(exts) ==
    /\ \E db \in ScanResultsExt([albums |-> albums, images |-> images], fs, 1, exts) :
          /\ albums' = db.albums
          /\ images' = db.images
    /\ UNCHANGED others
    /\ op' = "scan_ext"
    /\ arg' = exts
    /\ ok' = FALSE
    /\ run' = <<>>
    /\ UNCHANGED <<fs, displayed_images, current_album, current_image,
                   ret, shown, preRestart, pinned>>

\* scans under the allow-lists of a disk that gets new files
NextExt ==
    \/ \E f \in ExtFiles : Appear(f)
    \/ \E exts \in ExtLists : ScanMediaExt(exts)

SpecExt == Init /\ [][NextExt]_vars

Next ==
    \/ AddFile
    \/ ScanMedia
    \/ \E album \in NextArgs : GetNextImage(album)
    \/ \E album_name \in SetArgs : SetAlbum(album_name)
    \/ ClearHistory
    \/ Restart

Spec == Init /\ [][Next]_vars

\* one engine whose store calls may fail during get_next_image
NextFailing ==
    \/ AddFile
    \/ ScanMedia
    \/ \E album \in NextArgs : GetNextImage(album)
    \/ \E album_name \in SetArgs : SetAlbum(album_name)
    \/ ClearHistory
    \/ \E album \in NextArgs : \E failed \in FaultSets : GetNextImageFailing(album, failed)
    \/ \E album \in NextArgs : \E c \in StoreCalls : GetNextImageRaising(album, c)

SpecFailing == Init /\ [][NextFailing]_vars

\* one engine on a disk whose files come and go
NextVanish ==
    \/ AddFile
    \/ RemoveFile
    \/ ScanMedia
    \/ GetNextImage(None)
    \/ SetAlbum(<<"a">>)

SpecVanish == Init /\ [][NextVanish]_vars

\* ------------------------------------------------- the Flask application
\* what a step of the Flask application leaves unchanged
LegacyFrame ==
    UNCHANGED <<fs, albums, images, displayed_images, current_album, current_image,
                ok, ret, run, shown, preRestart, pinned, calls, scans, absent,
                nexts, sensor>>

\* a file appears under MEDIA_ROOT; no operation of the program
LegacyAddFile ==
    /\ legacy.root
    /\ \E f \in LegacyFiles \ legacy.files :
        legacy' = [legacy EXCEPT !.files = @ \cup {f}]
    /\ op' = "legacy_add"
    /\ arg' = None
    /\ LegacyFrame

\* a file under MEDIA_ROOT is deleted; no operation of the program
LegacyRemoveFile ==
    /\ \E f \in legacy.files :
        legacy' = [legacy EXCEPT !.files = @ \ {f}]
    /\ op' = "legacy_remove"
    /\ arg' = None
    /\ LegacyFrame

\* the empty MEDIA_ROOT is deleted or created; no operation of the program
LegacyToggleRoot ==
    /\ legacy.files = {}
    /\ legacy' = [legacy EXCEPT !.root = ~@]
    /\ op' = "legacy_root"
    /\ arg' = None
    /\ LegacyFrame

\* the images scan_media collects for one top-level directory: the files
\* below it whose lower-cased suffix is allowed, by relative path
LegacyAlbumImages(files, album_name) ==
    { [path |-> JoinParts(f.dir \o <<f.name>>), album |-> album_name] :
        f \in {g \in files : /\ g.dir # <<>>
                             /\ g.dir[1] = album_name
                             /\ Lower(Suffix(g.name)) \in ALLOWED_EXTENSIONS} }

\* the sequences that list every element of S once
Orders(S) ==
    {s \in [1..Cardinality(S) -> S] : \A i, j \in 1..Cardinality(S) : i # j => s[i] # s[j]}

\* scan_media: the values of _all_images it can build.  iterdir and glob
\* yield in the order of the file system, so every order that keeps the
\* images of one album together is possible.
LegacyScanResults(root, files) ==
    IF ~root THEN { <<>> }
    ELSE LET found == UNION {LegacyAlbumImages(files, f.dir[1]) : f \in {g \in files : g.dir # <<>>}}
         IN  {s \in Orders(found) :
                \A i, j, k \in 1..Len(s) :
                    (i < j /\ j < k /\ s[i].album = s[k].album) => s[j].album = s[i].album}

\* the empty result of the Flask application's get_next_image
LegacySentinel == [path |-> <<>>, relative_path |-> <<>>, album |-> <<>>]

LegacyInAlbum(album, img) == img.album = album

\* get_next_image that returns nothing when the album has no image
LegacySelectNoFallback(all_images, displayed, album) ==
    LET filtered ==
            IF Truthy(album) /\ ENABLE_ALBUM_FILTERING
            THEN SelectSeq(all_images, LAMBDA img : LegacyInAlbum(album, img))
            ELSE all_images
        seen(img) == img.path \notin displayed
        unseen == SelectSeq(filtered, seen)
        reset == unseen = <<>>
        unseen_images == IF reset THEN filtered ELSE unseen
        cleared == IF reset THEN {} ELSE displayed
    IN  IF unseen_images # <<>>
        THEN [displayed |-> cleared \cup {unseen_images[1].path},
              saved |-> TRUE,
              result |-> [path |-> PathJoin(MEDIA_ROOT, unseen_images[1].path),
                          relative_path |-> unseen_images[1].path,
                          album |-> unseen_images[1].album]]
        ELSE [displayed |-> cleared, saved |-> FALSE, result |-> LegacySentinel]

\* get_next_image from the filter on: the displayed set it leaves, whether it
\* wrote the state file, and the value it returns
LegacySelect(all_images, displayed, album) ==
    LET inAlbum == SelectSeq(all_images, LAMBDA img : LegacyInAlbum(album, img))
        filtered ==
            IF Truthy(album) /\ ENABLE_ALBUM_FILTERING
            THEN IF inAlbum = <<>> THEN all_images ELSE inAlbum
            ELSE all_images
        seen(img) == img.path \notin displayed
        unseen == SelectSeq(filtered, seen)
        reset == unseen = <<>>
        unseen_images == IF reset THEN filtered ELSE unseen
        cleared == IF reset THEN {} ELSE displayed
    IN  IF unseen_images # <<>>
        THEN [displayed |-> cleared \cup {unseen_images[1].path},
              saved |-> TRUE,
              result |-> [path |-> PathJoin(MEDIA_ROOT, unseen_images[1].path),
                          relative_path |-> unseen_images[1].path,
                          album |-> unseen_images[1].album]]
        ELSE [displayed |-> cleared, saved |-> FALSE, result |-> LegacySentinel]

\* POST /api/scan
LegacyScan ==
    /\ \E s \in LegacyScanResults(legacy.root, legacy.files) :
        legacy' = [legacy EXCEPT !.all_images = s,
                                 !.response = [status |-> 200, success |-> TRUE,
                                               path |-> <<>>, album |-> <<>>]]
    /\ op' = "api_scan"
    /\ arg' = None
    /\ LegacyFrame

\* GET /api/next_image: get_next_image scans first when _all_images is empty,
\* and the route answers 404 when the path it gets is empty
LegacyNextImage(album) ==
    /\ \E s \in (IF legacy.all_images = <<>>
                 THEN LegacyScanResults(legacy.root, legacy.files)
                 ELSE {legacy.all_images}) :
        LET r == LegacySelect(s, legacy.displayed_images, album)
        IN  legacy' = [legacy EXCEPT
                !.all_images = s,
                !.displayed_images = r.displayed,
                !.db_file = IF r.saved THEN r.displayed ELSE @,
                !.response = IF r.result.path = <<>>
                             THEN [status |-> 404, success |-> FALSE,
                                   path |-> <<>>, album |-> <<>>]
                             ELSE [status |-> 200, success |-> TRUE,
                                   path |-> r.result.path, album |-> r.result.album]]
    /\ op' = "api_next_image"
    /\ arg' = album
    /\ LegacyFrame

\* the Flask application is started again: MediaScanner.__init__ and
\* load_state
LegacyRestart ==
    /\ legacy' = [legacy EXCEPT !.all_images = <<>>,
                                !.displayed_images = legacy.db_file,
                                !.response = NoResponse]
    /\ op' = "legacy_restart"
    /\ arg' = None
    /\ LegacyFrame

NextLegacy ==
    \/ LegacyAddFile
    \/ LegacyRemoveFile
    \/ LegacyToggleRoot
    \/ LegacyScan
    \/ \E album \in LegacyArgs : LegacyNextImage(album)
    \/ LegacyRestart

SpecLegacy == Init /\ [][NextLegacy]_vars

\* ------------------------------------------------- vocabulary of the claims
\* a step of operation o (AddFile alone changes fs and keeps op)
Did(o) == op' = o /\ fs' = fs

\* the get_next_image call that ran last (when op = "next")
LastCall == Last(run)

MarkedIds(disp) == {d.image_id : d \in disp}

AlbumNames == {a.name : a \in albums}

\* ids of the cataloged images an album filter admits (all, without filter)
ScopeIds(f) ==
    {i.id : i \in {x \in images :
        f \in {None, <<>>} \/ \E a \in albums : a.id = x.album_id /\ a.name = f}}

\* the text after the last "/" of s (s itself when it has none)
LastSegment(s) ==
    LET slashes == {i \in 1..Len(s) : s[i] = "/"}
    IN  IF slashes = {} THEN s
        ELSE SubSeq(s, (CHOOSE i \in slashes : \A j \in slashes : j <= i) + 1, Len(s))

Min(a, b) == IF a <= b THEN a ELSE b

\* positions of the calls that follow call i while fewer than run[i].n calls
\* have been made since (call i included)
Within(i) == i .. Min(i + run[i].n - 1, Len(run))

\* the files on disk that scan_media is to catalog: allowed extension, under
\* a root that exists
Matching ==
    {f \in fs : f.root \notin absent /\ Lower(Suffix(f.name)) \in allowed_extensions}

\* where file f is: relative to its root, and absolute
RelPathOf(f) == JoinParts(Append(f.dir, f.name))

AbsPathOf(f) == f.root \o <<"/">> \o RelPathOf(f)

\* the image rows of file f: its name, under an album of its root named
\* after its parent directory
CatalogedAs(f, al, im) ==
    {i \in im : /\ i.filename = f.name
                /\ \E a \in al : /\ a.id = i.album_id
                                 /\ a.source_path = f.root
                                 /\ a.name = IF f.dir = <<>> THEN <<"R", "o", "o", "t">>
                                             ELSE Last(f.dir)}

\* a scan_media step during which no store call fails
ScanDone == op' \in {"scan", "rescan"} /\ fs' = fs /\ absent' = absent

C2_FullCycle ==
    \A i \in 1..Len(run) :
        (run[i].clean /\ ScopeIds(run[i].eff) # {}) =>
            LET N == Cardinality(ScopeIds(run[i].eff))
                first == i .. Min(i + N - 1, Len(run))
            IN  /\ run[i].n = N
                /\ \A j \in first : ~run[j].reset /\ run[j].id \in ScopeIds(run[i].eff)
                /\ \A j, k \in first : j # k => run[j].id # run[k].id
                /\ i + N - 1 <= Len(run) => {run[j].id : j \in first} = ScopeIds(run[i].eff)
                /\ i + N <= Len(run) => run[i + N].reset

\* C2 witness: a full cycle over a scope of three images followed by the call
\* that resets.
C2_Witness ==
    /\ op = "next"
    /\ Len(run) = 4
    /\ run[1].clean
    /\ run[1].n = 3
    /\ run[4].reset

\* C3: a get_next_image call whose scope holds images, all of them marked,
\* clears the marks and returns an image of the scope, which is then the only
\* marked image of the scope.
C3_ResetOnExhaustion ==
    [][(/\ Did("next")
        /\ ScopeIds(LastCall'.eff) # {}
        /\ ScopeIds(LastCall'.eff) \subseteq MarkedIds(displayed_images))
       => /\ LastCall'.reset
          /\ ret' # Sentinel
          /\ LastCall'.id \in ScopeIds(LastCall'.eff)
          /\ ScopeIds(LastCall'.eff) \cap MarkedIds(displayed_images') = {LastCall'.id}]_vars

\* C3 witness: a reset by the call that follows a full cycle over an album of
\* two images.
C3_Witness ==
    /\ op = "next"
    /\ Len(run) >= 3
    /\ LastCall.reset
    /\ LastCall.id # 0
    /\ Cardinality(ScopeIds(LastCall.eff)) = 2
    /\ MarkedIds(displayed_images) = {LastCall.id}

C5_FilterScoping ==
    [][(Did("next") /\ arg' = None /\ pinned # None) => ret'.album = pinned]_vars

\* C5 witness: a call without override that resets and returns an image of
\* the pinned album while the catalog holds another album.
C5_Witness ==
    /\ op = "next"
    /\ arg = None
    /\ pinned # None
    /\ ret.album = pinned
    /\ LastCall.reset
    /\ \E a \in albums : a.name # pinned

\* C6: set_album with a non-empty name whose last path segment is no album
\* name returns False and changes neither _current_album nor anything else.
C6_UnknownAlbumRejected ==
    [][(Did("set_album") /\ arg' \notin {None, <<>>} /\ LastSegment(arg') \notin AlbumNames)
       => /\ ok' = FALSE
          /\ UNCHANGED <<current_album, current_image, albums, images, displayed_images>>]_vars

\* C6 witness: a rejected set_album while an album is pinned.
C6_Witness ==
    /\ op = "set_album"
    /\ arg \notin {None, <<>>}
    /\ ~ok
    /\ current_album # None
    /\ LastSegment(arg) \notin AlbumNames

\* C7: set_album with an empty or absent name returns True and sets
\* _current_album to None; a get_next_image call without override made while
\* it is None draws from the undisplayed images of all albums (after a reset:
\* from all images).
C7_ClearFilter ==
    [][/\ (Did("set_album") /\ arg' \in {None, <<>>}) => (ok' /\ current_album' = None)
       /\ (Did("next") /\ arg' = None /\ current_album = None)
          => /\ LastCall'.eff = None
             /\ LastCall'.n = Cardinality(ScopeIds(None) \ MarkedIds(displayed_images))
             /\ images # {} =>
                   LastCall'.id \in (IF ScopeIds(None) \subseteq MarkedIds(displayed_images)
                                     THEN ScopeIds(None)
                                     ELSE ScopeIds(None) \ MarkedIds(displayed_images))]_vars

\* C7 witness: set_album("") has returned True with images of two albums in
\* the catalog.
C7_Witness ==
    /\ op = "set_album"
    /\ arg = <<>>
    /\ ok
    /\ current_album = None
    /\ Cardinality(AlbumNames) = 2

\* C8: set_album with a name that contains "/" succeeds exactly when the last
\* path segment is an album name, and then _current_album is that segment.
C8_PathStyleSetAlbum ==
    [][(Did("set_album") /\ Contains(arg', "/"))
       => /\ ok' <=> LastSegment(arg') \in AlbumNames
          /\ ok' => current_album' = LastSegment(arg')]_vars

\* C8 witness: set_album("z/a") has succeeded and the current album is "a".
C8_Witness ==
    /\ op = "set_album"
    /\ Contains(arg, "/")
    /\ ok
    /\ current_album = <<"a">>
    /\ current_album # arg

\* C9: get_next_image(X) with a non-empty X that names an album with images
\* returns an image of album X, whatever _current_album is.
C9_OverrideWins ==
    [][(Did("next") /\ Truthy(arg') /\ ScopeIds(arg') # {}) => ret'.album = arg']_vars

\* C9 witness: an override returned its album while another album was pinned.
C9_Witness ==
    /\ op = "next"
    /\ Truthy(arg)
    /\ current_album \notin {None, arg}
    /\ ret.album = arg

\* C10: a get_next_image override with separators is reduced to its last
\* path segment; if that album has images the call returns one of them.
C10_OverrideReduced ==
    [][(Did("next") /\ Contains(arg', "/") /\ ScopeIds(LastSegment(arg')) # {})
       => ret'.album = LastSegment(arg')]_vars

\* C11: a get_next_image call whose override names an album of the catalog
\* leaves _current_album equal to that override.
C11_OverrideUpdatesCurrentAlbum ==
    [][(Did("next") /\ arg' \in AlbumNames) => current_album' = arg']_vars

\* C12: get_next_image("") called while _current_album is an album B applies
\* no filter: the pool it counts is that of the undisplayed images of all
\* albums.
C12_ClearOverrideUnfiltered ==
    [][(Did("next") /\ arg' = <<>> /\ current_album # None)
       => /\ ~Truthy(LastCall'.eff)
          /\ LastCall'.n = Cardinality(ScopeIds(None) \ MarkedIds(displayed_images))]_vars

\* C13: get_next_image returns the empty result exactly when no cataloged
\* image matches the filter its queries use; otherwise every field of the
\* result is non-empty and the result is an image of that scope.
C13_SentinelIffNoMatch ==
    [][Did("next")
       => /\ ret' = Sentinel <=> ScopeIds(LastCall'.eff) = {}
          /\ ScopeIds(LastCall'.eff) # {}
             => /\ LastCall'.id \in ScopeIds(LastCall'.eff)
                /\ ret'.path # <<>> /\ ret'.relative_path # <<>>
                /\ ret'.album # <<>> /\ ret'.source_path # <<>>]_vars

\* C13 witness: the empty result for an album that has no image, returned
\* while the catalog holds images of another album, all of them marked.
C13_Witness ==
    /\ op = "next"
    /\ ret = Sentinel
    /\ LastCall.eff = <<"b">>
    /\ images # {}
    /\ ~LastCall.clean

C15_MarksDeletedOnlyOnExhaustion ==
    [][~(MarkedIds(displayed_images) \subseteq MarkedIds(displayed_images'))
       => \/ Did("reset_history")
          \/ /\ Did("next") \/ Did("next_failing")
             /\ ScopeIds(EffectiveAlbum(current_album, arg')) \subseteq MarkedIds(displayed_images)]_vars

\* C16: a get_next_image call that resets under an album filter with images
\* leaves the marks of the images of other albums in place.
C16_ResetOnlyScopedPool ==
    [][(/\ Did("next")
        /\ LastCall'.reset
        /\ Truthy(LastCall'.eff)
        /\ ScopeIds(LastCall'.eff) # {})
       => (MarkedIds(displayed_images) \ ScopeIds(LastCall'.eff))
              \subseteq MarkedIds(displayed_images')]_vars

RowsOf(c) ==
    IF c.fn = "add_album"
    THEN {a.id : a \in {x \in albums : <<x.name, x.source_path>> = c.key}}
    ELSE {i.id : i \in {x \in images : <<x.filename, x.album_id>> = c.key}}

\* C18: two successive add_album calls with the same (name, source_path), or
\* add_image calls with the same (filename, album_id), return the same id, and
\* exactly one row, of that id, has the key.
C18_IdempotentUpsert ==
    (Len(calls) = 2 /\ calls[1].fn = calls[2].fn /\ calls[1].key = calls[2].key)
        => /\ calls[1].id = calls[2].id
           /\ RowsOf(calls[2]) = {calls[2].id}

\* C18 witness: add_image was called twice with one key while the images
\* table holds a row of another key.
C18_Witness ==
    /\ op = "add_image"
    /\ Len(calls) = 2
    /\ calls[1] = calls[2]
    /\ calls[2].fn = "add_image"
    /\ Cardinality(images) = 2

\* C20: no two rows of displayed_images have the same image_id or the same
\* id, so there are as many marks as marked images.
C20_OneMarkPerImage ==
    /\ \A d, e \in displayed_images : (d.image_id = e.image_id \/ d.id = e.id) => d = e
    /\ Cardinality(displayed_images) = Cardinality(MarkedIds(displayed_images))

\* C20 witness: mark_image_displayed on a marked image has replaced its row:
\* two marks are left and rowid 3 was given.
C20_Witness ==
    /\ op = "mark"
    /\ Cardinality(displayed_images) = 2
    /\ MaxId(displayed_images) = 3
    /\ \A d \in displayed_images : d.id # 1

\* C19: no two album rows share (name, source_path), no two image rows share
\* (filename, album_id), and the album row a scan files an image under is the
\* one of the file's own root, so an album name under two roots has two rows.
C19_UniqueKeys ==
    /\ \A a, b \in albums : (a.name = b.name /\ a.source_path = b.source_path) => a = b
    /\ \A i, j \in images : (i.filename = j.filename /\ i.album_id = j.album_id) => i = j
    /\ \A t \in Threads :
          scans[t].pc \in {"image_select", "image_insert"}
              => \E a \in albums : /\ a.id = scans[t].album_id
                                   /\ a.name = AlbumNameOf(scans[t].file)
                                   /\ a.source_path = scans[t].file.root

\* C19 witness: a scan is about to insert an album row whose key another scan
\* has inserted since the first one looked it up, while the catalog holds two
\* rows of one album name under different roots.
C19_Witness ==
    /\ \E t \in Threads :
          /\ scans[t].pc = "album_insert"
          /\ \E a \in albums : /\ a.name = AlbumNameOf(scans[t].file)
                               /\ a.source_path = scans[t].file.root
    /\ \E a, b \in albums : a.name = b.name /\ a.source_path # b.source_path

\* C21: every row of displayed_images has the id of a row of images as its
\* image_id.
C21_MarksReferenceImages ==
    \A d \in displayed_images : \E i \in images : i.id = d.image_id

\* C21 witness: get_next_image has marked the last of three cataloged images.
C21_Witness ==
    /\ op = "next"
    /\ Cardinality(images) = 3
    /\ MarkedIds(displayed_images) = {i.id : i \in images}

\* C30: in consecutive get_next_image calls with a fixed filter and catalog,
\* any stretch of at most N calls, N the number of images in scope, returns
\* no image twice, wherever the stretch starts; with two or more images in
\* scope two consecutive calls never return the same image.
C30_NoRepeatWithinScopeSize ==
    \A i \in 1..Len(run) :
        \A j, k \in i .. Min(i + Cardinality(ScopeIds(run[i].eff)) - 1, Len(run)) :
            j # k => run[j].id # run[k].id

\* C29: a get_next_image call during which a store operation fails, be it a
\* failure to open the connection, raises nothing: it returns the empty
\* result or the record of a cataloged image.
C29_NoExceptionPropagates ==
    /\ op # "next_raised"
    /\ op = "next_failing" =>
           ret \in {Sentinel} \cup {ResultOf(r) : r \in JoinAll(albums, images, None)}

\* C22: after a scan every file it was to catalog has an image row whose
\* reconstructed relative path and returned absolute path are those of the
\* file, and every image the scan added reconstructs to a file on disk.
C22_PathsAreReal ==
    [][ScanDone =>
        /\ \A f \in Matching' :
              \E r \in JoinAll(albums', images', None) :
                  /\ r.source_path = f.root
                  /\ r.path = RelPathOf(f)
                  /\ ResultOf(r).path = AbsPathOf(f)
        /\ \A r \in JoinAll(albums', images', None) \ JoinAll(albums, images, None) :
              \E f \in Matching' : r.source_path = f.root /\ r.path = RelPathOf(f)]_vars

\* C23: after a scan without storage failure every file it was to catalog has
\* an image row, no two of them share one, and there are at least as many
\* image rows as such files.
C23_OwnImageRow ==
    [][ScanDone =>
        /\ \A f \in Matching' : CatalogedAs(f, albums', images') # {}
        /\ \A f, g \in Matching' :
              f # g => CatalogedAs(f, albums', images') \cap CatalogedAs(g, albums', images') = {}
        /\ Cardinality(images') >= Cardinality(Matching')]_vars

\* C24: after a scan every file it was to catalog has an image row under an
\* album of its root named after its immediate parent directory, "Root" for
\* a file in the root itself, and the album of such a file has the empty
\* directory_path.
C24_AlbumDerivation ==
    [][ScanDone =>
        \A f \in Matching' :
            \E i \in CatalogedAs(f, albums', images') :
                \A a \in albums' :
                    (a.id = i.album_id /\ f.dir = <<>>) => a.directory_path = <<>>]_vars

\* C25: a scan skips the roots that do not exist and catalogs every matching
\* file under each root that exists, wherever the missing root is in
\* media_paths.
C25_MissingRootSkipped ==
    [][ScanDone => \A f \in Matching' : CatalogedAs(f, albums', images') # {}]_vars

\* C25 witness: a scan has cataloged a file of the second root while the
\* first root does not exist.
C25_Witness ==
    /\ op \in {"scan", "rescan"}
    /\ absent = {media_paths[1]}
    /\ \E f \in Matching : f.root = media_paths[2] /\ CatalogedAs(f, albums, images) # {}

C27_ScanOnlyAdds ==
    [][Did("scan") =>
        /\ albums \subseteq albums'
        /\ images \subseteq images'
        /\ UNCHANGED <<displayed_images, current_album, current_image>>]_vars

\* C27 witness: after a scan the catalog holds the row of a file that is no
\* longer on disk and the row of one that is, with a mark, a pinned album and
\* a current image in place.
C27_Witness ==
    /\ op = "scan"
    /\ \E i \in images : \E a \in albums :
          /\ a.id = i.album_id
          /\ \A f \in fs : ~(f.root = a.source_path /\ f.name = i.filename
                              /\ DirPathOf(f) = a.directory_path)
    /\ \E f \in fs : CatalogedAs(f, albums, images) # {}
    /\ displayed_images # {}
    /\ current_album # None
    /\ current_image \notin {NoImage, Sentinel}

\* C28: a scan that follows a scan without failure, the disk unchanged in
\* between, leaves the album rows and the image rows as they are.
C28_RescanIdempotent ==
    [][(op' = "rescan" /\ fs' = fs /\ absent' = absent) => UNCHANGED <<albums, images>>]_vars

\* C28 witness: a second scan of a disk whose three files gave three image
\* rows.
C28_Witness ==
    /\ op = "rescan"
    /\ Cardinality(Matching) = 3
    /\ Cardinality(images) = 3

\* a table displayed_images that marks the images with the ids S
MarksOf(S) == {[id |-> i, image_id |-> i] : i \in S}

\* C32 (as stated): for a catalog with images in two albums there is a table
\* of marks under which the unfiltered pool is exhausted while an album
\* filter has an undisplayed image, and one under which an album filter with
\* images is exhausted while the unfiltered pool is not.
C32_ExhaustionDiffersBothWays ==
    Cardinality({a.name : a \in {b \in albums : \E i \in images : i.album_id = b.id}}) >= 2 =>
        /\ \E S \in SUBSET {i.id : i \in images} : \E a \in AlbumNames :
              /\ count_undisplayed_images(albums, images, MarksOf(S), None) = 0
              /\ count_undisplayed_images(albums, images, MarksOf(S), a) > 0
        /\ \E S \in SUBSET {i.id : i \in images} : \E a \in AlbumNames :
              /\ ScopeIds(a) # {}
              /\ count_undisplayed_images(albums, images, MarksOf(S), a) = 0
              /\ count_undisplayed_images(albums, images, MarksOf(S), None) > 0

\* C32 (amended): when the unfiltered pool has no undisplayed image, no album
\* filter has one; an album filter never counts more undisplayed images than
\* the unfiltered pool.
C32_AlbumWithinGlobal ==
    \A a \in AlbumNames :
        count_undisplayed_images(albums, images, displayed_images, a)
            <= count_undisplayed_images(albums, images, displayed_images, None)

\* C32 witness: every image of album "b" is marked, so that filter is
\* exhausted, while the unfiltered pool has undisplayed images left.
C32_Witness ==
    /\ ScopeIds(<<"b">>) # {}
    /\ count_undisplayed_images(albums, images, displayed_images, <<"b">>) = 0
    /\ count_undisplayed_images(albums, images, displayed_images, None) > 0

C36_CurrentAlbumValid ==
    [][/\ current_album' = None \/ current_album' \in {a.name : a \in albums'}
       /\ current_album' # current_album => (Did("set_album") /\ ok') \/ Did("restart")
       /\ albums \subseteq albums']_vars

\* C36 witness: album "a" is pinned and calls with an override for another
\* album and for an unknown album have been made since.
C36_Witness ==
    /\ current_album = <<"a">>
    /\ op = "next"
    /\ arg = <<"z", "/", "a">>
    /\ Cardinality(AlbumNames) = 2

\* C37: after a restart _current_album is None and get_current_image is the
\* empty result, whatever they were; the first get_next_image call without
\* override after it filters by no album.
C37_RestartClearsSession ==
    [][/\ Did("restart") => /\ current_album' = None
                            /\ get_current_image' = Sentinel
       /\ (op = "restart" /\ Did("next") /\ arg' = None)
          => /\ ~Truthy(LastCall'.eff)
             /\ LastCall'.n = Cardinality(ScopeIds(None) \ MarkedIds(displayed_images))]_vars

\* C37 witness: the first call after a restart that followed calls of the
\* previous engine returns an image of album "b" while the catalog also holds
\* album "a".
C37_Witness ==
    /\ op = "next"
    /\ arg = None
    /\ Len(run) = 1
    /\ preRestart # {}
    /\ current_album = None
    /\ ret.album = <<"b">>
    /\ <<"a">> \in AlbumNames

\* the extension of `name` equals an entry of exts, case disregarded
MatchesIgnoringCase(name, exts) == \E e \in exts : Lower(Suffix(name)) = Lower(e)

\* C33: a scan under an allow-list catalogs a file if and only if its
\* extension equals an entry of the list, case disregarded: after the scan a
\* file on disk has an image row exactly if it had one or its extension
\* matches that way.
C33_CaseInsensitiveAllowList ==
    [][(op' = "scan_ext" /\ fs' = fs) =>
        \A f \in fs :
            CatalogedAs(f, albums', images') # {}
                <=> (CatalogedAs(f, albums, images) # {} \/ MatchesIgnoringCase(f.name, arg'))]_vars

\* C31: a get_next_image call begun while its scope had an undisplayed image
\* returns an image of that scope, also when another call marked the last
\* undisplayed image of the scope between its count and its sample.
C31_FallbackOnRace ==
    \A t \in Threads :
        (nexts[t].pc = "done" /\ nexts[t].avail >= 1)
            => /\ nexts[t].ret # Sentinel
               /\ nexts[t].selected.id \in ScopeIds(nexts[t].eff)

\* C34: two get_next_image calls that overlap, each begun with at least two
\* undisplayed images in its scope, return different images.
C34_InterleavedCallsDiffer ==
    (\A t \in Threads : nexts[t].pc = "done" /\ nexts[t].avail >= 2)
        => nexts[1].ret # nexts[2].ret

\* number of undisplayed images a get_next_image(album) call would find
Undisplayed(album) ==
    Cardinality(ScopeIds(EffectiveAlbum(current_album, album)) \ MarkedIds(displayed_images))

\* what one next_image service call does according to C38: two more marks,
\* the sensor showing the image selected last, which is not the image the
\* handler returned
TwoSelections ==
    /\ Cardinality(displayed_images') = Cardinality(displayed_images) + 2
    /\ sensor'.available
    /\ sensor'.state = current_image'.path
    /\ current_image' # ret'
    /\ ret' # Sentinel

LegacyCatalog(lg) == {lg.all_images[i] : i \in 1..Len(lg.all_images)}

\* C39: in the Flask application, a /api/next_image request whose album
\* parameter names an album without any image in the catalog is answered from
\* the whole catalog: with status 200 and an image of another album, whose
\* path is then in the displayed set, and with status 404 only when the
\* catalog has no image at all.
C39_LegacyFallsBackToWholeCatalog ==
    [][(/\ Did("api_next_image")
        /\ Truthy(arg')
        /\ \A img \in LegacyCatalog(legacy') : img.album # arg')
       => IF LegacyCatalog(legacy') = {}
          THEN legacy'.response.status = 404
          ELSE /\ legacy'.response.status = 200
               /\ legacy'.response.album # arg'
               /\ \E img \in LegacyCatalog(legacy') :
                    /\ img.album = legacy'.response.album
                    /\ PathJoin(MEDIA_ROOT, img.path) = legacy'.response.path
                    /\ img.path \in legacy'.displayed_images]_vars

C39_Witness ==
    /\ op = "api_next_image"
    /\ arg = <<"z">>
    /\ legacy.response.status = 200
    /\ legacy.response.album = <<"b">>
    /\ Len(legacy.all_images) = 3
    /\ Cardinality(legacy.displayed_images) = 2
====
